---- MODULE Spec2Model ----
(***************************************************************************)
(* A model of the EPUB reader core (src/src/epub_reader.py) and of the     *)
(* parts of the application (src/main.py) that drive it: loading, the     *)
(* table of contents, pagination, navigation state, the navigation keys    *)
(* of the reading loop and search.                                         *)
(*                                                                         *)
(* Text is a sequence of one-character strings; NL is the newline and SP   *)
(* the blank.  A page is the text obtained by joining its lines with NL,   *)
(* as the code builds it.                                                  *)
(***************************************************************************)
EXTENDS Integers, Sequences, FiniteSets, TLC

(* ------------------------------ bounds --------------------------------- *)

\* Largest page width a pagination is called with (widths are 1..MaxWidth).
MaxWidth == 2
\* Largest page height a pagination is called with (heights are 3..MaxHeight).
MaxHeight == 4
\* Integer arguments of the navigation calls range over -1..MaxArg.
MaxArg == 2
\* Longest logical line handed to the word wrapper on its own.
MaxLineLen == 5
\* A saved reading progress holds a chapter and a page in -1..MaxSaved.
MaxSaved == 1
MaxItems == 3
MaxTimers == 3

(* ------------------------------- text ---------------------------------- *)

NL == "\n"
SP == " "

\* str.isspace of the characters of the model
IsSpace(c) == c \in {SP, NL}

\* str.lower, character by character
LowerChar(c) == CASE c = "A" -> "a" [] c = "B" -> "b" [] OTHER -> c

Lower(s) == [k \in 1..Len(s) |-> LowerChar(s[k])]

\* The first index of character c in s, 0 when there is none.
IndexOf(s, c) ==
  IF \E k \in 1..Len(s) : s[k] = c
    THEN CHOOSE k \in 1..Len(s) : s[k] = c /\ \A j \in 1..(k - 1) : s[j] # c
    ELSE 0

RECURSIVE SplitOn(_, _)
\* str.split(c): the segments between the occurrences of c, empty ones kept.
SplitOn(s, c) ==
  LET k == IndexOf(s, c) IN
  IF k = 0 THEN << s >>
  ELSE << SubSeq(s, 1, k - 1) >> \o SplitOn(SubSeq(s, k + 1, Len(s)), c)

RECURSIVE LStrip(_)
LStrip(s) == IF s # << >> /\ IsSpace(Head(s)) THEN LStrip(Tail(s)) ELSE s

RECURSIVE RStrip(_)
RStrip(s) ==
  IF s # << >> /\ IsSpace(s[Len(s)]) THEN RStrip(SubSeq(s, 1, Len(s) - 1)) ELSE s

\* str.strip()
Strip(s) == RStrip(LStrip(s))

RECURSIVE SplitWords(_)
\* str.split(): the maximal runs of non-blank characters, in order.
SplitWords(s) ==
  LET t == LStrip(s) IN
  IF t = << >> THEN << >>
  ELSE LET stop == IF \E k \in 1..Len(t) : IsSpace(t[k])
                     THEN CHOOSE k \in 1..Len(t) :
                            IsSpace(t[k]) /\ \A j \in 1..(k - 1) : ~IsSpace(t[j])
                     ELSE Len(t) + 1
       IN << SubSeq(t, 1, stop - 1) >> \o SplitWords(SubSeq(t, stop, Len(t)))

RECURSIVE Join(_, _)
\* sep.join(parts)
Join(parts, sep) ==
  IF parts = << >> THEN << >>
  ELSE IF Len(parts) = 1 THEN parts[1]
  ELSE parts[1] \o << sep >> \o Join(Tail(parts), sep)

\* "needle in hay" for strings: needle occurs as a contiguous substring.
Contains(hay, needle) ==
  \E k \in 0..(Len(hay) - Len(needle)) :
    SubSeq(hay, k + 1, k + Len(needle)) = needle

(* --------------------------- Chapter._wrap_line ------------------------ *)

RECURSIVE SliceWordSlow(_, _, _)
\* A hard-slicing loop that takes two steps for every slice, the second
\* emitting an empty line.
SliceWordSlow(word, width, wrapped) ==
  IF Len(word) > width
    THEN SliceWordSlow(SubSeq(word, width + 1, Len(word)), width,
                       Append(Append(wrapped, SubSeq(word, 1, width)), << >>))
    ELSE [wrapped |-> wrapped, current_line |-> word]

RECURSIVE SliceWord(_, _, _)
\* The hard-slicing loop: while the word is longer than width, emit its first
\* width characters as a line; what is left becomes the current line.
SliceWord(word, width, wrapped) ==
  IF Len(word) > width
    THEN SliceWord(SubSeq(word, width + 1, Len(word)), width,
                   Append(wrapped, SubSeq(word, 1, width)))
    ELSE [wrapped |-> wrapped, current_line |-> word]

\* One iteration of "for word in words", from (wrapped_lines, current_line).
WrapWord(word, width, wrapped, current_line) ==
  IF Len(current_line) + 1 + Len(word) <= width
    THEN [wrapped |-> wrapped,
          current_line |-> IF current_line # << >>
                             THEN current_line \o << SP >> \o word
                             ELSE word]
    ELSE IF current_line # << >>
           THEN [wrapped |-> Append(wrapped, current_line), current_line |-> word]
           ELSE SliceWord(word, width, wrapped)

RECURSIVE WrapWords(_, _, _, _)
WrapWords(words, width, wrapped, current_line) ==
  IF words = << >> THEN [wrapped |-> wrapped, current_line |-> current_line]
  ELSE LET st == WrapWord(Head(words), width, wrapped, current_line)
       IN WrapWords(Tail(words), width, st.wrapped, st.current_line)

\* Chapter._wrap_line(line, width), for width >= 1.
WrapLine(line, width) ==
  IF Len(line) <= width THEN << line >>
  ELSE LET st == WrapWords(SplitWords(line), width, << >>, << >>)
           wrapped_lines == IF st.current_line # << >>
                              THEN Append(st.wrapped, st.current_line)
                              ELSE st.wrapped
       IN IF wrapped_lines # << >> THEN wrapped_lines ELSE << << >> >>

(* ---------------------------- Chapter.paginate ------------------------- *)

RECURSIVE WrapAll(_, _)
\* The wrapped lines of all logical lines, in order.
WrapAll(lines, width) ==
  IF lines = << >> THEN << >>
  ELSE WrapLine(Head(lines), width) \o WrapAll(Tail(lines), width)

RECURSIVE FillPages(_, _, _, _, _)
\* A page-filling loop that starts each new page empty, without the line that
\* found the page full.
FillPagesDropLine(wrapped, page_height, pages, current_page_lines, current_line_count) ==
  IF wrapped = << >>
    THEN [pages |-> pages, current_page_lines |-> current_page_lines]
  ELSE IF current_line_count >= page_height - 2
    THEN FillPages(Tail(wrapped), page_height,
                   Append(pages, Join(current_page_lines, NL)),
                   << >>, 0)
    ELSE FillPages(Tail(wrapped), page_height, pages,
                   Append(current_page_lines, Head(wrapped)),
                   current_line_count + 1)

\* The page-filling loop over the wrapped lines, from the loop's state
\* (pages, current_page_lines, current_line_count).
FillPages(wrapped, page_height, pages, current_page_lines, current_line_count) ==
  IF wrapped = << >>
    THEN [pages |-> pages, current_page_lines |-> current_page_lines]
  ELSE IF current_line_count >= page_height - 2
    THEN FillPages(Tail(wrapped), page_height,
                   Append(pages, Join(current_page_lines, NL)),
                   << Head(wrapped) >>, 1)
    ELSE FillPages(Tail(wrapped), page_height, pages,
                   Append(current_page_lines, Head(wrapped)),
                   current_line_count + 1)

\* A paginate that keeps the pages of the previous call (no reset).
KeepPages(prior) == prior

\* "self.pages = []" at the start of paginate.
ResetPages(prior) == << >>

\* A paginate that returns early, without a page, on empty content.
PagesOrNone(content, pages) == IF content = << >> THEN << >> ELSE pages

\* "if not self.pages: self.pages = [\"\"]".
EnsureOnePage(content, pages) == IF pages = << >> THEN << << >> >> ELSE pages

\* Chapter.paginate(page_width, page_height) on a chapter whose page list was
\* prior: the chapter's new page list.
Paginate(content, prior, page_width, page_height) ==
  LET lines == SplitOn(content, NL)
      st == FillPages(WrapAll(lines, page_width), page_height,
                      ResetPages(prior), << >>, 0)
      pages == IF st.current_page_lines # << >>
                 THEN Append(st.pages, Join(st.current_page_lines, NL))
                 ELSE st.pages
  IN EnsureOnePage(content, pages)

(* ------------------------------ navigation ----------------------------- *)

\* A next_page that steps from the last page too.
ChNextPagePastEnd(ch) ==
  IF ch.current_page < Len(ch.pages)
    THEN [ch |-> [ch EXCEPT !.current_page = ch.current_page + 1], ret |-> TRUE]
    ELSE [ch |-> ch, ret |-> FALSE]

\* Chapter.next_page: the chapter after the call and the value returned.
ChNextPage(ch) ==
  IF ch.current_page < Len(ch.pages) - 1
    THEN [ch |-> [ch EXCEPT !.current_page = ch.current_page + 1], ret |-> TRUE]
    ELSE [ch |-> ch, ret |-> FALSE]

\* Chapter.prev_page
ChPrevPage(ch) ==
  IF ch.current_page > 0
    THEN [ch |-> [ch EXCEPT !.current_page = ch.current_page - 1], ret |-> TRUE]
    ELSE [ch |-> ch, ret |-> FALSE]

\* Chapter.goto_page(page_num)
ChGotoPage(ch, page_num) ==
  IF 0 <= page_num /\ page_num < Len(ch.pages)
    THEN [ch |-> [ch EXCEPT !.current_page = page_num], ret |-> TRUE]
    ELSE [ch |-> ch, ret |-> FALSE]

\* Chapter.get_current_page: the page text read for display.
ChGetCurrentPage(ch) ==
  IF ch.pages = << >> THEN << >>
  ELSE IF ch.current_page < Len(ch.pages) THEN ch.pages[ch.current_page + 1]
  ELSE << >>

\* Chapter k of a reader is chapters[k + 1].

\* EpubReader.get_current_chapter: TRUE when it returns a chapter.
HasCurrentChapter(rd) ==
  0 <= rd.current_chapter /\ rd.current_chapter < Len(rd.chapters)

\* A next_chapter that does not stop at the last chapter.
RdNextChapterNoStop(rd) ==
  [rd |-> [rd EXCEPT !.current_chapter = rd.current_chapter + 1], ret |-> TRUE]

\* EpubReader.next_chapter
RdNextChapter(rd) ==
  IF rd.current_chapter < Len(rd.chapters) - 1
    THEN [rd |-> [rd EXCEPT !.current_chapter = rd.current_chapter + 1], ret |-> TRUE]
    ELSE [rd |-> rd, ret |-> FALSE]

\* EpubReader.prev_chapter
RdPrevChapter(rd) ==
  IF rd.current_chapter > 0
    THEN [rd |-> [rd EXCEPT !.current_chapter = rd.current_chapter - 1], ret |-> TRUE]
    ELSE [rd |-> rd, ret |-> FALSE]

\* A goto_chapter that keeps the target chapter's page.
RdGotoChapterNoReset(rd, chapter_index) ==
  IF 0 <= chapter_index /\ chapter_index < Len(rd.chapters)
    THEN [rd |-> [rd EXCEPT !.current_chapter = chapter_index], ret |-> TRUE]
    ELSE [rd |-> rd, ret |-> FALSE]

\* EpubReader.goto_chapter(chapter_index)
RdGotoChapter(rd, chapter_index) ==
  IF 0 <= chapter_index /\ chapter_index < Len(rd.chapters)
    THEN [rd |-> [rd EXCEPT !.current_chapter = chapter_index,
                            !.chapters[chapter_index + 1].current_page = 0],
          ret |-> TRUE]
    ELSE [rd |-> rd, ret |-> FALSE]

\* EpubReader.set_reading_position(chapter, page)
RdSetReadingPosition(rd, chapter, page) ==
  IF 0 <= chapter /\ chapter < Len(rd.chapters)
    THEN LET r == ChGotoPage(rd.chapters[chapter + 1], page)
         IN [rd |-> [rd EXCEPT !.current_chapter = chapter,
                               !.chapters[chapter + 1] = r.ch],
             ret |-> r.ret]
    ELSE [rd |-> rd, ret |-> FALSE]

\* EpubReader.get_reading_position: << chapter, page >>.
RdGetReadingPosition(rd) ==
  IF HasCurrentChapter(rd)
    THEN << rd.current_chapter, rd.chapters[rd.current_chapter + 1].current_page >>
    ELSE << 0, 0 >>

\* EpubReader.paginate_chapters(page_width, page_height)
RdPaginateChapters(rd, page_width, page_height) ==
  [rd EXCEPT !.chapters =
     [k \in 1..Len(rd.chapters) |->
        [rd.chapters[k] EXCEPT !.pages =
           Paginate(rd.chapters[k].content, rd.chapters[k].pages,
                    page_width, page_height)]]]

\* The navigation keys of handle_key_input, by the first name each has.
NavigationKeys == { "down", "up", "right", "left" }

\* The navigation branch of handle_key_input(key) on a reader that has a
\* current chapter: the reader after it.
KeyNavigation(rd, key) ==
  LET chapter == rd.chapters[rd.current_chapter + 1]
  IN CASE key = "down" ->
            LET r == ChNextPage(chapter)
            IN IF r.ret THEN [rd EXCEPT !.chapters[rd.current_chapter + 1] = r.ch]
               ELSE RdNextChapter(rd).rd
       [] key = "up" ->
            LET r == ChPrevPage(chapter)
                p == RdPrevChapter(rd)
            IN IF r.ret THEN [rd EXCEPT !.chapters[rd.current_chapter + 1] = r.ch]
               ELSE IF p.ret
                 THEN LET new_chapter == p.rd.chapters[p.rd.current_chapter + 1]
                      IN IF new_chapter.pages # << >>
                           THEN [p.rd EXCEPT
                                   !.chapters[p.rd.current_chapter + 1].current_page =
                                      Len(new_chapter.pages) - 1]
                           ELSE p.rd
                 ELSE rd
       [] key = "right" -> RdNextChapter(rd).rd
       [] key = "left" -> RdPrevChapter(rd).rd
       [] OTHER -> rd

(* -------------------------------- loading ------------------------------ *)

\* An archive is [items, toc, spine]: the sequence of its document items in
\* the order get_items yields them (the order of the manifest), the list
\* book.toc read from it, and book.spine, the ids of the items in reading order.  An item is
\* [id, decodable, text, title]: its manifest id, whether its content decodes
\* as UTF-8, the text _html_to_text extracts from it, and the title
\* _extract_chapter_title finds (the empty text when it finds none).

DigitChar == << "1", "2", "3", "4", "5", "6", "7", "8", "9" >>

\* f"Chapter {chapter_num + 1}"
ChapterLabel(chapter_num) ==
  << "C", "h", "a", "p", "t", "e", "r", SP >> \o << DigitChar[chapter_num + 1] >>

\* Chapter.__init__(title, content, chapter_id)
NewChapter(title, content, chapter_id) ==
  [title |-> title, content |-> content, chapter_id |-> chapter_id,
   pages |-> << >>, current_page |-> 0]

RECURSIVE ExtractChapters(_, _)
\* EpubReader._extract_chapters: the chapters of the items left to read, given
\* the chapters built so far.  The try statement encloses the loop: the
\* decode() that raises ends it, the chapters built so far kept.
ExtractChapters(items, chapters) ==
  IF items = << >> THEN chapters
  ELSE LET item == Head(items)
           chapter_num == Len(chapters)
       IN IF ~item.decodable THEN chapters
          ELSE IF Strip(item.text) # << >>
            THEN ExtractChapters(Tail(items),
                   Append(chapters,
                          NewChapter(IF item.title # << >> THEN item.title
                                     ELSE ChapterLabel(chapter_num),
                                     item.text, item.id)))
            ELSE ExtractChapters(Tail(items), chapters)

\* A node of book.toc is [kind, title, href, href_is_none, children]: kind
\* "link" is an object with title and href, kind "tuple" the pair of such an
\* object and the list of its children, kind "other" anything else.  An href
\* that is None (href_is_none) has no split method.  An entry of the table of
\* contents is [title, chapter_index, level].

\* str.endswith
EndsWith(s, suffix) ==
  /\ Len(suffix) <= Len(s)
  /\ SubSeq(s, Len(s) - Len(suffix) + 1, Len(s)) = suffix

\* The None _find_chapter_by_href returns.
NoChapter == -1

\* A _find_chapter_by_href that returns the last chapter matched.
FindChapterFromLast(chapters, href, i) ==
  LET matched == { j \in i..(Len(chapters) - 1) :
                     /\ chapters[j + 1].chapter_id # << >>
                     /\ EndsWith(href, chapters[j + 1].chapter_id) }
  IN IF matched = {} THEN NoChapter
     ELSE CHOOSE j \in matched : \A l \in matched : l <= j

RECURSIVE FindChapterFrom(_, _, _)
\* The loop of _find_chapter_by_href from chapter i.
FindChapterFrom(chapters, href, i) ==
  IF i >= Len(chapters) THEN NoChapter
  ELSE IF chapters[i + 1].chapter_id # << >>
          /\ EndsWith(href, chapters[i + 1].chapter_id)
         THEN i
         ELSE FindChapterFrom(chapters, href, i + 1)

\* EpubReader._find_chapter_by_href(href)
FindChapterByHref(chapters, href) ==
  FindChapterFrom(chapters, SplitOn(href, "#")[1], 0)

TocEntry(title, chapter_index, level) ==
  [title |-> title, chapter_index |-> chapter_index, level |-> level]

\* The steps of _process_toc_item on an object with title and href: the
\* chapter looked up and, when there is one, the entry appended.  The result
\* is [toc, raised]: the table of contents so far and whether the step raised.
ResolveTocItem(node, level, chapters, toc) ==
  IF node.href_is_none THEN [toc |-> toc, raised |-> TRUE]
  ELSE LET chapter_index == FindChapterByHref(chapters, node.href)
       IN [toc |-> IF chapter_index # NoChapter
                     THEN Append(toc, TocEntry(node.title, chapter_index, level))
                     ELSE toc,
           raised |-> FALSE]

RECURSIVE ProcessTocItem(_, _, _, _)
RECURSIVE ProcessTocItems(_, _, _, _)
\* _process_toc_item on a list, and its loop over the children of a tuple:
\* the items in order at the same level, up to the first that raises.
ProcessTocItems(items, level, chapters, toc) ==
  IF items = << >> THEN [toc |-> toc, raised |-> FALSE]
  ELSE LET r == ProcessTocItem(Head(items), level, chapters, toc)
       IN IF r.raised THEN r
          ELSE ProcessTocItems(Tail(items), level, chapters, r.toc)

\* A _process_toc_item that keeps the children of a tuple at its level.
ProcessTocItemSameLevel(toc_item, level, chapters, toc) ==
  IF toc_item.kind = "link"
    THEN ResolveTocItem(toc_item, level, chapters, toc)
  ELSE IF toc_item.kind = "tuple"
    THEN LET r == ResolveTocItem(toc_item, level, chapters, toc)
         IN IF r.raised THEN r
            ELSE ProcessTocItems(toc_item.children, level, chapters, r.toc)
  ELSE [toc |-> toc, raised |-> FALSE]

\* EpubReader._process_toc_item(toc_item, level) on an item that is no list.
ProcessTocItem(toc_item, level, chapters, toc) ==
  IF toc_item.kind = "link"
    THEN ResolveTocItem(toc_item, level, chapters, toc)
  ELSE IF toc_item.kind = "tuple"
    THEN LET r == ResolveTocItem(toc_item, level, chapters, toc)
         IN IF r.raised THEN r
            ELSE ProcessTocItems(toc_item.children, level + 1, chapters, r.toc)
  ELSE [toc |-> toc, raised |-> FALSE]

\* A _build_toc that makes no entry from the chapters.
NoFallbackToc(chapters) == << >>

\* The table of contents _build_toc makes from the chapters.
FallbackToc(chapters) ==
  [i \in 1..Len(chapters) |-> TocEntry(chapters[i].title, i - 1, 0)]

\* EpubReader._build_toc: self.toc after it.  The except clause appends to
\* what _process_toc_item had appended before it raised.
BuildToc(book, chapters) ==
  LET r == ProcessTocItems(book.toc, 0, chapters, << >>)
  IN IF r.raised THEN r.toc \o FallbackToc(chapters)
     ELSE IF r.toc = << >> THEN FallbackToc(chapters)
     ELSE r.toc

\* A reader is [book, chapters, current_chapter, toc].
\* EpubReader.__init__(file_path) on a readable archive: the reader built.
\* The constructor returns the reader whatever _load_book found.
NewReader(archive) ==
  LET chapters == ExtractChapters(archive.items, << >>)
  IN [book |-> archive, chapters |-> chapters, current_chapter |-> 0,
      toc |-> BuildToc(archive, chapters)]

\* An open_book that goes on with a reader that has no chapter.
AnyChapters(rd) == TRUE

\* open_book step 2: "if not self.current_reader.chapters: return False".
HasChapters(rd) == rd.chapters # << >>

\* open_book steps 5-6: the position restored from the saved progress, none
\* (NoProgress) or << chapter, position >>.
NoProgress == << >>

\* "chapter = get_current_chapter(); if chapter: chapter.current_page = 0"
ResetCurrentPage(rd) ==
  IF HasCurrentChapter(rd)
    THEN [rd EXCEPT !.chapters[rd.current_chapter + 1].current_page = 0]
    ELSE rd

\* An open_book that restores the saved page of a valid chapter as it is.
RestorePositionUnclamped(rd, saved_progress) ==
  IF saved_progress # NoProgress
       /\ 0 <= saved_progress[1] /\ saved_progress[1] < Len(rd.chapters)
    THEN [rd EXCEPT !.current_chapter = saved_progress[1],
                    !.chapters[saved_progress[1] + 1].current_page =
                       saved_progress[2]]
    ELSE ResetCurrentPage([rd EXCEPT !.current_chapter = 0])

RestorePosition(rd, saved_progress) ==
  IF saved_progress # NoProgress
    THEN LET target_chapter == saved_progress[1]
             target_page == saved_progress[2]
         IN IF 0 <= target_chapter /\ target_chapter < Len(rd.chapters)
              THEN [rd EXCEPT
                      !.current_chapter = target_chapter,
                      !.chapters[target_chapter + 1].current_page =
                         IF 0 <= target_page
                            /\ target_page < Len(rd.chapters[target_chapter + 1].pages)
                           THEN target_page ELSE 0]
              ELSE ResetCurrentPage([rd EXCEPT !.current_chapter = 0])
    ELSE ResetCurrentPage([rd EXCEPT !.current_chapter = 0])

(* ------------------------------- search -------------------------------- *)

\* EpubReader._get_search_context(lines, line_idx), context_lines = 2;
\* line_idx counts from 0.
context_lines == 2

Max(a, b) == IF a >= b THEN a ELSE b
Min(a, b) == IF a <= b THEN a ELSE b

\* A context that ends one line early.
GetSearchContextShort(lines, line_idx) ==
  LET start == Max(0, line_idx - context_lines)
      end == Min(Len(lines), line_idx + context_lines)
      context == SubSeq(lines, start + 1, end)
  IN Join([k \in 1..Len(context) |-> Strip(context[k])], NL)

GetSearchContext(lines, line_idx) ==
  LET start == Max(0, line_idx - context_lines)
      end == Min(Len(lines), line_idx + context_lines + 1)
      context == SubSeq(lines, start + 1, end)
  IN Join([k \in 1..Len(context) |-> Strip(context[k])], NL)

RECURSIVE SearchLines(_, _, _, _, _)
\* An inner loop that puts each hit after the hits of the lines below it.
SearchLinesLastFirst(chapter_idx, chapter, lines, line_idx, query_lower) ==
  IF line_idx >= Len(lines) THEN << >>
  ELSE LET line == lines[line_idx + 1]
           rest == SearchLines(chapter_idx, chapter, lines, line_idx + 1, query_lower)
       IN IF Contains(Lower(line), query_lower)
            THEN rest \o << [chapter_index |-> chapter_idx,
                             chapter_title |-> chapter.title,
                             line_number |-> line_idx + 1,
                             line_content |-> Strip(line),
                             context |-> GetSearchContext(lines, line_idx)] >>
            ELSE rest

\* The inner loop of search_text over the lines of one chapter, from line_idx.
SearchLines(chapter_idx, chapter, lines, line_idx, query_lower) ==
  IF line_idx >= Len(lines) THEN << >>
  ELSE LET line == lines[line_idx + 1]
           rest == SearchLines(chapter_idx, chapter, lines, line_idx + 1, query_lower)
       IN IF Contains(Lower(line), query_lower)
            THEN << [chapter_index |-> chapter_idx,
                     chapter_title |-> chapter.title,
                     line_number |-> line_idx + 1,
                     line_content |-> Strip(line),
                     context |-> GetSearchContext(lines, line_idx)] >> \o rest
            ELSE rest

RECURSIVE SearchChapters(_, _, _)
\* The outer loop of search_text, from chapter_idx.
SearchChapters(chapters, chapter_idx, query_lower) ==
  IF chapter_idx >= Len(chapters) THEN << >>
  ELSE SearchLines(chapter_idx, chapters[chapter_idx + 1],
                   SplitOn(chapters[chapter_idx + 1].content, NL), 0, query_lower)
       \o SearchChapters(chapters, chapter_idx + 1, query_lower)

\* A search_text that looks for the query as typed.
SearchTextAsTyped(rd, query) == SearchChapters(rd.chapters, 0, query)

\* EpubReader.search_text(query)
SearchText(rd, query) == SearchChapters(rd.chapters, 0, Lower(query))

(* ------------------------------- inputs -------------------------------- *)

TextLines == << "A", "b", NL, "b", NL, "a", "b" >>
TextWords == << "a", SP, "b", "b" >>
TextBlank == << SP >>
TextSix ==
  << "a", NL, "b", NL, SP, "a", "b", NL, "B", NL, "a", "b", NL, "b" >>
TitleT == << "T" >>
NoTitle == << >>

\* The manifest id of the k-th item.
ItemId(k) == << "c", DigitChar[k] >>

Item(k, text, title) ==
  [id |-> ItemId(k), decodable |-> TRUE, text |-> text, title |-> title]

\* An item whose content is not UTF-8.
BadItem(k) ==
  [id |-> ItemId(k), decodable |-> FALSE, text |-> << >>, title |-> NoTitle]

\* An archive whose spine lists the items in another order than its manifest.
ArchiveWithSpine(items, toc, spine) ==
  [items |-> items, toc |-> toc, spine |-> spine]

\* An archive whose spine lists the items in the order of its manifest.
Archive(items, toc) ==
  ArchiveWithSpine(items, toc, [k \in 1..Len(items) |-> items[k].id])

\* The archives opened, each without a table of contents of its own.
Archives ==
  { Archive(items, << >>) : items \in
      { << >>,
        << Item(1, TextBlank, NoTitle) >>,
        << Item(1, TextLines, TitleT) >>,
        << Item(1, TextLines, NoTitle), Item(2, TextWords, NoTitle) >>,
        << Item(1, TextBlank, NoTitle), Item(2, TextWords, TitleT),
           Item(3, TextLines, NoTitle) >> } }

\* An archive with a chapter of six lines, opened to search it.
SearchArchives ==
  { Archive(<< Item(1, TextSix, TitleT), Item(2, TextWords, NoTitle) >>, << >>) }

Widths == 1..MaxWidth
Heights == 3..MaxHeight
Args == -1..MaxArg

\* The reading progress the database may hold for a book.
SavedProgress == {NoProgress} \cup ((-1..MaxSaved) \X (-1..MaxSaved))

\* The search queries.
Queries == { << >>, << "a" >>, << "B" >>, << "a", "b" >>, << "b", "b" >>,
             << "A", "B" >>, << SP >>, << "c" >>, << "b", SP >>, << "T" >> }

RECURSIVE TextsUpTo(_, _)
\* All texts over alphabet of length at most n.
TextsUpTo(alphabet, n) ==
  IF n = 0 THEN { << >> }
  ELSE LET shorter == TextsUpTo(alphabet, n - 1)
       IN shorter \cup { Append(t, c) : t \in shorter, c \in alphabet }

\* The items an archive may hold at place k of its manifest.
ItemsAt(k) ==
  { Item(k, TextWords, NoTitle), Item(k, TextLines, TitleT),
    Item(k, TextBlank, NoTitle), BadItem(k) }

RECURSIVE ItemLists(_)
\* The item lists of n items.
ItemLists(n) ==
  IF n = 0 THEN { << >> }
  ELSE { Append(items, item) : items \in ItemLists(n - 1), item \in ItemsAt(n) }

Link(title, href) ==
  [kind |-> "link", title |-> title, href |-> href, href_is_none |-> FALSE,
   children |-> << >>]

\* A link whose href is None.
LinkNoHref(title) ==
  [kind |-> "link", title |-> title, href |-> << >>, href_is_none |-> TRUE,
   children |-> << >>]

\* The tuple (Section(title, href), children).
SectionTuple(title, href, children) ==
  [kind |-> "tuple", title |-> title, href |-> href, href_is_none |-> FALSE,
   children |-> children]

\* An entry of book.toc that is neither.
OtherTocItem ==
  [kind |-> "other", title |-> << >>, href |-> << >>, href_is_none |-> FALSE,
   children |-> << >>]

TitleA == << "A" >>
TitleB == << "B" >>
HrefNoMatch == << "z", "z" >>

\* The lists book.toc may be.
Tocs ==
  { << >>,
    << Link(TitleA, ItemId(1)) >>,
    << Link(TitleA, HrefNoMatch) >>,
    << Link(TitleA, << "x", "/" >> \o ItemId(1) \o << "#", "f" >>),
       Link(TitleB, ItemId(2)) >>,
    << Link(TitleA, ItemId(2)), Link(TitleB, ItemId(1)) >>,
    << SectionTuple(TitleA, ItemId(1),
         << Link(TitleB, ItemId(2)),
            SectionTuple(TitleA, HrefNoMatch, << Link(TitleB, ItemId(3)) >>) >>),
       Link(TitleT, ItemId(1)) >>,
    << SectionTuple(TitleA, HrefNoMatch, << Link(TitleB, ItemId(2)) >>) >>,
    << Link(TitleA, ItemId(1)), LinkNoHref(TitleB) >>,
    << LinkNoHref(TitleA), Link(TitleB, ItemId(1)) >>,
    << SectionTuple(TitleA, ItemId(2), << LinkNoHref(TitleB) >>),
       Link(TitleB, ItemId(1)) >>,
    << OtherTocItem, Link(TitleA, ItemId(2)) >> }

\* The archives a reader is built from on its own.
Books ==
  { Archive(items, toc) :
      items \in UNION { ItemLists(n) : n \in 0..MaxItems }, toc \in Tocs }

\* An item whose manifest id is id.
ItemWithId(id, text, title) ==
  [id |-> id, decodable |-> TRUE, text |-> text, title |-> title]

\* Archives whose ids are suffixes of one another ("1" of "c1"), and archives
\* with an item whose manifest id is the empty string.
SuffixBooks ==
  { Archive(items, toc) :
      items \in { << ItemWithId(<< "1" >>, TextWords, NoTitle),
                    Item(1, TextLines, TitleT) >>,
                 << ItemWithId(<< >>, TextWords, NoTitle),
                    Item(2, TextLines, TitleT) >> },
      toc \in Tocs }

\* Archives whose manifest and spine disagree on the order of the items.
SpineBooks ==
  { ArchiveWithSpine(<< Item(1, TextWords, NoTitle), Item(2, TextLines, TitleT) >>,
                     << >>, << ItemId(2), ItemId(1) >>),
    ArchiveWithSpine(<< Item(1, TextWords, NoTitle), Item(2, TextBlank, NoTitle),
                        Item(3, TextLines, NoTitle) >>,
                     << Link(TitleA, ItemId(3)) >>,
                     << ItemId(3), ItemId(1), ItemId(2) >>) }

\* The logical lines handed to the word wrapper on its own.
Lines == TextsUpTo({"a", "b", SP}, MaxLineLen)

\* Longest content of a chapter built on its own.
MaxContentLen == 4
Contents == TextsUpTo({"a", SP, NL}, MaxContentLen)

(* -------------------------------- state -------------------------------- *)

VARIABLES
  mode,         \* "menu": in main_menu; "reading": in reading_loop;
                \* "opening": in open_book, at its start_auto_save;
                \* "leaving": at the end of reading_loop; "hung": in a call
                \* that does not return; "exited": after cleanup
  has_reader,   \* app.current_reader is not None
  reader,       \* app.current_reader: [book, chapters, current_chapter, toc]
  config,       \* the display settings: [page_width, page_height]
  chapter,      \* a Chapter built on its own, outside a reader
  wrap_in,      \* the arguments of the last _wrap_line call made on its own
  wrap_out,     \* and the lines it returned
  query,        \* the query of the last search_text call
  hits,         \* and the hits it returned
  last,         \* the last call: [op, ret, a, b] (name, value returned, arguments)
  old,          \* the reader and the display settings the last call started
                \* from: [reader, config]
  progress,     \* the rows of the database table reading_history: the saved
                \* << chapter, position >> of each book that has a row
  timer         \* the auto-save timers and the threads that handle them:
                \* [ref, pending, callback]

vars == << mode, has_reader, reader, config, chapter, wrap_in, wrap_out, query, hits,
           last, old, progress, timer >>

\* A reading_history table without rows.
NoRows == [book \in {} |-> << 0, 0 >>]

\* No timer pending, self.auto_save_timer None, no callback running.
NoTimer == [ref |-> 0, pending |-> {}, callback |-> "none"]

NoReader ==
  [book |-> Archive(<< >>, << >>), chapters |-> << >>, current_chapter |-> 0,
   toc |-> << >>]

Call(op, ret, a, b) == [op |-> op, ret |-> ret, a |-> a, b |-> b]

\* The page index of every chapter of rd, in chapter order.
PageIndexes(rd) == [k \in 1..Len(rd.chapters) |-> rd.chapters[k].current_page]

Position(rd) ==
  [current_chapter |-> rd.current_chapter, current_page |-> PageIndexes(rd)]

\* The page list of every chapter of rd, in chapter order.
PageLists(rd) == [k \in 1..Len(rd.chapters) |-> rd.chapters[k].pages]

Snapshot(rd, cfg) == [reader |-> rd, config |-> cfg]

\* The state after EpubReaderApp.__init__: no reader; the configuration holds
\* some page width and height.
Init ==
  /\ mode = "menu"
  /\ has_reader = FALSE
  /\ reader = NoReader
  /\ config \in [page_width : Widths, page_height : Heights]
  /\ chapter = NewChapter(<< >>, << >>, << >>)
  /\ wrap_in = [line |-> << >>, width |-> 1]
  /\ wrap_out = << >>
  /\ query = << >>
  /\ hits = << >>
  /\ last = Call("init", TRUE, 0, 0)
  /\ old = Snapshot(NoReader, config)
  /\ progress = NoRows
  /\ timer = NoTimer

(* ------------------------------- actions ------------------------------- *)

\* EpubReaderApp.open_book(file_path) when validate_epub rejects the file.
OpenInvalid ==
  /\ mode = "menu"
  /\ last' = Call("open_book", FALSE, 0, 0)
  /\ old' = Snapshot(reader, config)
  /\ UNCHANGED << mode, has_reader, reader, config, chapter, wrap_in, wrap_out,
                  query, hits,
                  progress, timer >>

\* EpubReaderApp.open_book(file_path) on a valid archive; the database holds
\* one of saved for the book.  The call starts from the reader it builds.
OpenBook(archive, saved) ==
  LET rd == NewReader(archive)
      paginated == RdPaginateChapters(rd, config.page_width, config.page_height)
  IN /\ mode = "menu"
     /\ has_reader' = TRUE
     /\ old' = Snapshot(rd, config)
     /\ UNCHANGED << config, chapter, wrap_in, wrap_out, query, hits,
                     progress, timer >>
     /\ IF ~HasChapters(rd)
          THEN /\ reader' = rd
               /\ last' = Call("open_book", FALSE, 0, 0)
               /\ mode' = "menu"
          ELSE /\ \E saved_progress \in saved :
                    reader' = RestorePosition(paginated, saved_progress)
               /\ last' = Call("open_book", TRUE, 0, 0)
               /\ mode' = "reading"

\* chapters[i].next_page() on chapter i of the reader
NextPage(i) ==
  /\ mode = "reading" /\ i \in 0..(Len(reader.chapters) - 1)
  /\ LET r == ChNextPage(reader.chapters[i + 1]) IN
       /\ reader' = [reader EXCEPT !.chapters[i + 1] = r.ch]
       /\ last' = Call("next_page", r.ret, i, 0)
  /\ old' = Snapshot(reader, config)
  /\ UNCHANGED << mode, has_reader, config, chapter, wrap_in, wrap_out, query, hits,
                  progress, timer >>

PrevPage(i) ==
  /\ mode = "reading" /\ i \in 0..(Len(reader.chapters) - 1)
  /\ LET r == ChPrevPage(reader.chapters[i + 1]) IN
       /\ reader' = [reader EXCEPT !.chapters[i + 1] = r.ch]
       /\ last' = Call("prev_page", r.ret, i, 0)
  /\ old' = Snapshot(reader, config)
  /\ UNCHANGED << mode, has_reader, config, chapter, wrap_in, wrap_out, query, hits,
                  progress, timer >>

GotoPage(i, page_num) ==
  /\ mode = "reading" /\ i \in 0..(Len(reader.chapters) - 1)
  /\ LET r == ChGotoPage(reader.chapters[i + 1], page_num) IN
       /\ reader' = [reader EXCEPT !.chapters[i + 1] = r.ch]
       /\ last' = Call("goto_page", r.ret, i, page_num)
  /\ old' = Snapshot(reader, config)
  /\ UNCHANGED << mode, has_reader, config, chapter, wrap_in, wrap_out, query, hits,
                  progress, timer >>

\* A reader call r = [rd, ret] named op with arguments a, b.
ReaderCall(op, r, a, b) ==
  /\ mode = "reading"
  /\ reader' = r.rd
  /\ last' = Call(op, r.ret, a, b)
  /\ old' = Snapshot(reader, config)
  /\ UNCHANGED << mode, has_reader, config, chapter, wrap_in, wrap_out, query, hits,
                  progress, timer >>

NextChapter == ReaderCall("next_chapter", RdNextChapter(reader), 0, 0)

PrevChapter == ReaderCall("prev_chapter", RdPrevChapter(reader), 0, 0)

GotoChapter(chapter_index) ==
  ReaderCall("goto_chapter", RdGotoChapter(reader, chapter_index), chapter_index, 0)

SetReadingPosition(c, page) ==
  ReaderCall("set_reading_position", RdSetReadingPosition(reader, c, page), c, page)

\* A settings change to (page_width, page_height) followed by the
\* re-pagination of every chapter, as the 's' key does.
PaginateChapters(page_width, page_height) ==
  /\ has_reader
  /\ config' = [page_width |-> page_width, page_height |-> page_height]
  /\ reader' = RdPaginateChapters(reader, page_width, page_height)
  /\ last' = Call("paginate_chapters", TRUE, page_width, page_height)
  /\ old' = Snapshot(reader, config)
  /\ UNCHANGED << mode, has_reader, chapter, wrap_in, wrap_out, query, hits,
                  progress, timer >>

\* The 'q' key in the reading loop: handle_key_input returns False and the
\* application is back in the main menu, the reader kept.
Quit ==
  /\ mode = "reading"
  /\ mode' = "menu"
  /\ last' = Call("quit", FALSE, 0, 0)
  /\ old' = Snapshot(reader, config)
  /\ UNCHANGED << has_reader, reader, config, chapter, wrap_in, wrap_out,
                  query, hits,
                  progress, timer >>

Next ==
  \/ OpenInvalid
  \/ \E archive \in Archives : OpenBook(archive, SavedProgress)
  \/ \E i \in Args : NextPage(i)
  \/ \E i \in Args : PrevPage(i)
  \/ \E i \in Args, n \in Args : GotoPage(i, n)
  \/ NextChapter
  \/ PrevChapter
  \/ \E n \in Args : GotoChapter(n)
  \/ \E c \in Args, n \in Args : SetReadingPosition(c, n)
  \/ \E w \in Widths, h \in Heights : PaginateChapters(w, h)
  \/ Quit

Spec == Init /\ [][Next]_vars

(* ------------------- a Chapter built on its own ------------------------ *)

\* Chapter(title, content) for some content, not paginated yet.
InitChapter ==
  /\ mode = "menu"
  /\ has_reader = FALSE
  /\ reader = NoReader
  /\ config = [page_width |-> 1, page_height |-> 3]
  /\ chapter \in { NewChapter(TitleT, c, << >>) : c \in Contents }
  /\ wrap_in = [line |-> << >>, width |-> 1]
  /\ wrap_out = << >>
  /\ query = << >>
  /\ hits = << >>
  /\ last = Call("init", TRUE, 0, 0)
  /\ old = Snapshot(NoReader, config)
  /\ progress = NoRows
  /\ timer = NoTimer

\* A call on the chapter: r = [ch, ret].
ChapterCall(op, r, a, b) ==
  /\ chapter' = r.ch
  /\ last' = Call(op, r.ret, a, b)
  /\ UNCHANGED << mode, has_reader, reader, config, wrap_in, wrap_out, query,
                  hits, old,
                  progress, timer >>

\* chapter.paginate(page_width, page_height)
ChapterPaginate(page_width, page_height) ==
  ChapterCall("paginate",
              [ch |-> [chapter EXCEPT !.pages =
                         Paginate(chapter.content, chapter.pages,
                                  page_width, page_height)],
               ret |-> TRUE],
              page_width, page_height)

ChapterNextPage == ChapterCall("next_page", ChNextPage(chapter), 0, 0)

ChapterPrevPage == ChapterCall("prev_page", ChPrevPage(chapter), 0, 0)

ChapterGotoPage(page_num) ==
  ChapterCall("goto_page", ChGotoPage(chapter, page_num), page_num, 0)

NextChapterOps ==
  \/ \E w \in Widths, h \in Heights : ChapterPaginate(w, h)
  \/ ChapterNextPage
  \/ ChapterPrevPage
  \/ \E n \in Args : ChapterGotoPage(n)

SpecChapter == InitChapter /\ [][NextChapterOps]_vars

(* ---------------------- _wrap_line called on its own ------------------- *)

InitWrap ==
  /\ mode = "menu"
  /\ has_reader = FALSE
  /\ reader = NoReader
  /\ config = [page_width |-> 1, page_height |-> 3]
  /\ chapter = NewChapter(<< >>, << >>, << >>)
  /\ wrap_in \in [line : Lines, width : Widths]
  /\ wrap_out = << >>
  /\ query = << >>
  /\ hits = << >>
  /\ last = Call("init", TRUE, 0, 0)
  /\ old = Snapshot(NoReader, config)
  /\ progress = NoRows
  /\ timer = NoTimer

\* chapter._wrap_line(line, width)
WrapLineCall ==
  /\ last.op = "init"
  /\ wrap_out' = WrapLine(wrap_in.line, wrap_in.width)
  /\ last' = Call("_wrap_line", TRUE, 0, 0)
  /\ UNCHANGED << mode, has_reader, reader, config, chapter, wrap_in, query,
                  hits, old,
                  progress, timer >>

NextWrap == WrapLineCall

SpecWrap == InitWrap /\ [][NextWrap]_vars

(* ---------------------- a reader built on its own ---------------------- *)

InitLoad ==
  /\ mode = "menu"
  /\ has_reader = FALSE
  /\ reader = NoReader
  /\ config = [page_width |-> 1, page_height |-> 3]
  /\ chapter = NewChapter(<< >>, << >>, << >>)
  /\ wrap_in = [line |-> << >>, width |-> 1]
  /\ wrap_out = << >>
  /\ query = << >>
  /\ hits = << >>
  /\ last = Call("init", TRUE, 0, 0)
  /\ old = Snapshot(NoReader, config)
  /\ progress = NoRows
  /\ timer = NoTimer

\* EpubReader(file_path) on the archive book.
LoadBook(book) ==
  /\ last.op = "init"
  /\ reader' = NewReader(book)
  /\ last' = Call("load_book", TRUE, 0, 0)
  /\ UNCHANGED << mode, has_reader, config, chapter, wrap_in, wrap_out, query,
                  hits, old,
                  progress, timer >>

NextLoad == \E book \in Books \cup SuffixBooks \cup SpineBooks : LoadBook(book)

SpecLoad == InitLoad /\ [][NextLoad]_vars

(* --------------------------- the reading loop -------------------------- *)

\* The name in last of a handle_key_input(key) call.
KeyOp(key) ==
  CASE key = "down" -> "key_down"
    [] key = "up" -> "key_up"
    [] key = "right" -> "key_right"
    [] key = "left" -> "key_left"

\* EpubReaderApp.handle_key_input(key) for a navigation key, called by
\* reading_loop.  Without a current chapter it returns False and the loop
\* ends.  The position it saves when the position changed goes to the
\* database, which is no part of the state here.
HandleKeyInput(key) ==
  /\ mode = "reading"
  /\ IF has_reader /\ HasCurrentChapter(reader)
       THEN /\ reader' = KeyNavigation(reader, key)
            /\ last' = Call(KeyOp(key), TRUE, 0, 0)
            /\ mode' = mode
       ELSE /\ reader' = reader
            /\ last' = Call(KeyOp(key), FALSE, 0, 0)
            /\ mode' = "menu"
  /\ old' = Snapshot(reader, config)
  /\ UNCHANGED << has_reader, config, chapter, wrap_in, wrap_out, query, hits,
                  progress, timer >>

NextReading ==
  \/ \E archive \in Archives : OpenBook(archive, SavedProgress)
  \/ \E key \in NavigationKeys : HandleKeyInput(key)
  \/ Quit

SpecReading == Init /\ [][NextReading]_vars

(* ------------------------- search_text on a reader --------------------- *)

\* reader.search_text(q)
SearchTextCall(q) ==
  /\ mode = "reading"
  /\ query' = q
  /\ hits' = SearchText(reader, q)
  /\ last' = Call("search_text", TRUE, 0, 0)
  /\ old' = Snapshot(reader, config)
  /\ UNCHANGED << mode, has_reader, reader, config, chapter, wrap_in, wrap_out,
                  progress, timer >>

NextSearch ==
  \/ \E archive \in Archives \cup SearchArchives : OpenBook(archive, SavedProgress)
  \/ \E q \in Queries : SearchTextCall(q)
  \/ Quit

SpecSearch == Init /\ [][NextSearch]_vars

(* ---------- the application with its database and its timer ------------ *)

\* The rows of reading_history are keyed by the file of the book, here the
\* archive.  A timer is a number of 1..MaxTimers; timer is [ref, pending,
\* callback]: the timer self.auto_save_timer refers to (0 for None), the
\* timers started that have neither fired nor been cancelled, and the place
\* of the thread that runs auto_save_callback ("none" when no timer has fired).

\* Database.get_reading_progress(file_path): << chapter, position >> of the
\* row of the book, NoProgress without one.
GetReadingProgress(rows, book) ==
  IF book \in DOMAIN rows THEN rows[book] ELSE NoProgress

\* Database.add_or_update_book(file_path, ...): a row with the default
\* progress for a book that has none; the progress of an existing row is kept.
AddOrUpdateBook(rows, book) ==
  IF book \in DOMAIN rows THEN rows
  ELSE [b \in DOMAIN rows \cup {book} |-> IF b = book THEN << 0, 0 >> ELSE rows[b]]

\* Database.update_reading_progress(file_path, chapter, position, time): an
\* UPDATE of the row of the book, which changes nothing without such a row.
UpdateReadingProgress(rows, book, current_chapter, current_position) ==
  IF book \in DOMAIN rows
    THEN [rows EXCEPT ![book] = << current_chapter, current_position >>]
    ELSE rows

\* EpubReaderApp.save_progress and auto_save_position, which differ in the
\* reading time alone.
SaveProgress(rows, has, rd) ==
  IF ~has THEN rows
  ELSE LET position == RdGetReadingPosition(rd)
       IN UpdateReadingProgress(rows, rd.book, position[1], position[2])

\* EpubReaderApp.stop_auto_save: cancel() takes a timer that has not fired
\* out of the pending ones and does nothing to one that has.
StopAutoSave(t) ==
  IF t.ref # 0 THEN [t EXCEPT !.pending = @ \ {t.ref}, !.ref = 0] ELSE t

\* The numbers no timer in use has.
FreeTimers(t) == (1..MaxTimers) \ (t.pending \cup {t.ref})

\* start_auto_save after its stop_auto_save: a new timer made, referred to
\* and started.
CreateTimer(t) ==
  LET id == CHOOSE i \in FreeTimers(t) : \A j \in FreeTimers(t) : i <= j
  IN [t EXCEPT !.ref = id, !.pending = @ \cup {id}]

\* Whether _wrap_line(line, width) stays in its slicing loop for ever: with
\* width <= 0 the loop takes nothing off the first word it is given.
WrapLineDiverges(line, width) ==
  /\ width <= 0
  /\ Len(line) > width
  /\ SplitWords(line) # << >>

\* Whether paginate_chapters(page_width, page_height) never returns.
PaginateDiverges(rd, page_width) ==
  \E k \in 1..Len(rd.chapters) :
    LET lines == SplitOn(rd.chapters[k].content, NL)
    IN \E n \in 1..Len(lines) : WrapLineDiverges(lines[n], page_width)

\* EpubReaderApp.open_book(file_path) on a valid archive, up to the
\* stop_auto_save of its start_auto_save.  The reader is assigned before the
\* chapters are looked at.  A pagination that does not end leaves the
\* application in it ("hung") or, its memory used up, ends in the except
\* clause.  last holds the page width and height handed to paginate_chapters.
AppOpenBook(archive) ==
  LET rd == NewReader(archive)
      rows == AddOrUpdateBook(progress, archive)
      page_width == config.page_width
      page_height == config.page_height
  IN /\ mode = "menu"
     /\ has_reader' = TRUE
     /\ old' = Snapshot(rd, config)
     /\ UNCHANGED << config, chapter, wrap_in, wrap_out, query, hits >>
     /\ IF ~HasChapters(rd)
          THEN /\ reader' = rd
               /\ last' = Call("open_book", FALSE, 0, 0)
               /\ mode' = "menu"
               /\ UNCHANGED << progress, timer >>
          ELSE IF PaginateDiverges(rd, page_width)
            THEN /\ reader' = rd
                 /\ last' = Call("open_book", FALSE, page_width, page_height)
                 /\ mode' \in {"hung", "menu"}
                 /\ progress' = rows
                 /\ timer' = timer
            ELSE /\ reader' = RestorePosition(
                                RdPaginateChapters(rd, page_width, page_height),
                                GetReadingProgress(rows, archive))
                 /\ last' = Call("open_book", TRUE, page_width, page_height)
                 /\ mode' = "opening"
                 /\ progress' = rows
                 /\ timer' = StopAutoSave(timer)

\* The rest of open_book: start_auto_save makes and starts its timer, and
\* open_book returns True to the caller, which enters reading_loop.
AppStartAutoSave ==
  /\ mode = "opening"
  /\ FreeTimers(timer) # {}
  /\ timer' = CreateTimer(timer)
  /\ mode' = "reading"
  /\ UNCHANGED << has_reader, reader, config, chapter, wrap_in, wrap_out, query,
                  hits, last, old, progress >>

\* The keys of handle_key_input that stand for a navigation key.
FirstName(key) ==
  CASE key \in {"down", "j", "enter", "space"} -> "down"
    [] key \in {"up", "k"} -> "up"
    [] key \in {"right", "l"} -> "right"
    [] key \in {"left", "h"} -> "left"
    [] OTHER -> key

\* What the user answers in the dialogs of a key: the letter and the number
\* typed less one, the query, the display settings chosen.
Input(choice, number, q, display) ==
  [choice |-> choice, number |-> number, query |-> q, display |-> display]

\* show_table_of_contents: the ui returns the place of the entry chosen,
\* counted from 0, or None; goto_chapter is called with it.
ShowTableOfContents(rd, number) ==
  IF 0 <= number /\ number < Len(rd.toc)
    THEN RdGotoChapter(rd, number).rd
    ELSE rd

\* goto_dialog
GotoDialog(rd, choice, number) ==
  IF choice = "c"
    THEN IF 0 <= number /\ number < Len(rd.chapters)
           THEN RdGotoChapter(rd, number).rd
           ELSE rd
  ELSE IF choice = "p"
    THEN IF HasCurrentChapter(rd) /\ 0 <= number
            /\ number < Len(rd.chapters[rd.current_chapter + 1].pages)
           THEN [rd EXCEPT !.chapters[rd.current_chapter + 1] =
                             ChGotoPage(@, number).ch]
           ELSE rd
  ELSE rd

\* search_dialog: the result chosen among those of search_text, if any.
SearchDialog(rd, q, number) ==
  LET results == SearchText(rd, q)
  IN IF q # << >> /\ 0 <= number /\ number < Len(results)
       THEN RdGotoChapter(rd, results[number + 1].chapter_index).rd
       ELSE rd

\* EpubReaderApp.handle_key_input(key) with a current chapter: the
\* navigation keys, the position saved if it changed, then the menu keys.
\* The result is [rd, rows, config, ret].  The 's' key paginates with the
\* settings of the configuration, changed in the dialog or not.
HandleKey(rd, rows, cfg, key, input) ==
  LET moved == KeyNavigation(rd, FirstName(key))
      saved == IF RdGetReadingPosition(moved) # RdGetReadingPosition(rd)
                 THEN SaveProgress(rows, TRUE, moved)
                 ELSE rows
      Result(r, s, c, ret) == [rd |-> r, rows |-> s, config |-> c, ret |-> ret]
  IN CASE key = "t" ->
            Result(ShowTableOfContents(moved, input.number), saved, cfg, TRUE)
       [] key = "g" ->
            Result(GotoDialog(moved, input.choice, input.number), saved, cfg, TRUE)
       [] key = "/" ->
            Result(SearchDialog(moved, input.query, input.number), saved, cfg, TRUE)
       [] key = "s" ->
            Result(RdPaginateChapters(moved, input.display.page_width,
                                      input.display.page_height),
                   saved, input.display, TRUE)
       [] key \in {"o", "l"} ->
            Result(moved, SaveProgress(saved, TRUE, moved), cfg, FALSE)
       [] key \in {"q", "esc"} -> Result(moved, saved, cfg, FALSE)
       [] OTHER -> Result(moved, saved, cfg, TRUE)

\* handle_key_input(key) called by reading_loop, the dialogs answered with
\* input.  When it returns False the loop is left.
AppHandleKeyInput(key, input) ==
  /\ mode = "reading"
  /\ IF has_reader /\ HasCurrentChapter(reader)
       THEN IF key = "s" /\ PaginateDiverges(reader, input.display.page_width)
              THEN /\ config' = input.display
                   /\ last' = Call(key, FALSE, input.number, 0)
                   /\ mode' = "hung"
                   /\ UNCHANGED << reader, progress >>
              ELSE LET r == HandleKey(reader, progress, config, key, input)
                   IN /\ reader' = r.rd
                      /\ progress' = r.rows
                      /\ config' = r.config
                      /\ last' = Call(key, r.ret, input.number, 0)
                      /\ mode' = IF r.ret THEN "reading" ELSE "leaving"
       ELSE /\ last' = Call(key, FALSE, input.number, 0)
            /\ mode' = "leaving"
            /\ UNCHANGED << reader, progress, config >>
  /\ old' = Snapshot(reader, config)
  /\ UNCHANGED << has_reader, chapter, wrap_in, wrap_out, query, hits, timer >>

\* The keys that open no dialog.
PlainKeys == { "down", "up", "right", "left", "l", "o", "q" }

NoInput == Input("", -1, << >>, config)

KeyPressed(key) == AppHandleKeyInput(key, NoInput)

TableOfContentsKey(number) ==
  AppHandleKeyInput("t", Input("", number, << >>, config))

GotoKey(choice, number) ==
  AppHandleKeyInput("g", Input(choice, number, << >>, config))

SearchKey(q, number) == AppHandleKeyInput("/", Input("", number, q, config))

\* The 's' key: the dialog leaves the display settings as they are or changes
\* them to values it accepts.
SettingsKey(display) ==
  /\ display \in {config} \cup [page_width : Widths, page_height : Heights]
  /\ AppHandleKeyInput("s", Input("", -1, << >>, display))

\* The end of reading_loop: save_progress() and stop_auto_save().
ReadingLoopEnd ==
  /\ mode = "leaving"
  /\ progress' = SaveProgress(progress, has_reader, reader)
  /\ timer' = StopAutoSave(timer)
  /\ mode' = "menu"
  /\ last' = Call("reading_loop", TRUE, 0, 0)
  /\ old' = Snapshot(reader, config)
  /\ UNCHANGED << has_reader, reader, config, chapter, wrap_in, wrap_out,
                  query, hits >>

\* 'q' in the main menu: run() ends with cleanup(), and the process with its
\* daemon timers ends after it.
Cleanup ==
  /\ mode = "menu"
  /\ progress' = SaveProgress(progress, has_reader, reader)
  /\ timer' = NoTimer
  /\ mode' = "exited"
  /\ last' = Call("cleanup", TRUE, 0, 0)
  /\ old' = Snapshot(reader, config)
  /\ UNCHANGED << has_reader, reader, config, chapter, wrap_in, wrap_out,
                  query, hits >>

\* The books of the library: one of two chapters with a table of contents
\* that lists the second first, and one without a readable chapter.
AppBooks ==
  { Archive(<< Item(1, TextLines, NoTitle), Item(2, TextWords, NoTitle) >>,
            << Link(TitleA, ItemId(2)), Link(TitleB, ItemId(1)) >>),
    Archive(<< Item(1, TextBlank, NoTitle) >>, << >>) }

\* The progress a row left by an earlier run may hold.
SavedRows == (-1..MaxSaved) \X (-1..MaxSaved)

\* The reading_history table an earlier run left: empty, or with the row of
\* one book.
InitialRows ==
  {NoRows} \cup { [b \in {book} |-> row] : book \in AppBooks, row \in SavedRows }

\* The queries typed in the search dialog.
AppQueries == { << >>, << "b" >> }

\* The state after EpubReaderApp.__init__ with the database of an earlier run.
InitOpen ==
  /\ mode = "menu"
  /\ has_reader = FALSE
  /\ reader = NoReader
  /\ config \in [page_width : Widths, page_height : Heights]
  /\ chapter = NewChapter(<< >>, << >>, << >>)
  /\ wrap_in = [line |-> << >>, width |-> 1]
  /\ wrap_out = << >>
  /\ query = << >>
  /\ hits = << >>
  /\ last = Call("init", TRUE, 0, 0)
  /\ old = Snapshot(NoReader, config)
  /\ progress \in InitialRows
  /\ timer = NoTimer

\* Books opened and closed, with few keys pressed in between.
NextOpen ==
  \/ OpenInvalid
  \/ \E archive \in AppBooks : AppOpenBook(archive)
  \/ AppStartAutoSave
  \/ \E key \in {"down", "q"} : KeyPressed(key)
  \/ ReadingLoopEnd
  \/ Cleanup

SpecOpen == InitOpen /\ [][NextOpen]_vars

\* The keys of the reading loop, the database empty at the start and the
\* settings dialog left without a change.
NextApp ==
  \/ \E archive \in AppBooks : AppOpenBook(archive)
  \/ AppStartAutoSave
  \/ \E key \in PlainKeys : KeyPressed(key)
  \/ \E number \in Args : TableOfContentsKey(number)
  \/ \E choice \in {"c", "p"}, number \in Args : GotoKey(choice, number)
  \/ \E q \in AppQueries, number \in Args : SearchKey(q, number)
  \/ SettingsKey(config)
  \/ ReadingLoopEnd

SpecApp == Init /\ [][NextApp]_vars

\* The page widths and heights the configuration file may hold: get_int
\* takes any integer.
ConfigWidths == 0..MaxWidth
ConfigHeights == 2..MaxHeight

\* The state after EpubReaderApp.__init__ with any configuration file.
InitSettings ==
  /\ mode = "menu"
  /\ has_reader = FALSE
  /\ reader = NoReader
  /\ config \in [page_width : ConfigWidths, page_height : ConfigHeights]
  /\ chapter = NewChapter(<< >>, << >>, << >>)
  /\ wrap_in = [line |-> << >>, width |-> 1]
  /\ wrap_out = << >>
  /\ query = << >>
  /\ hits = << >>
  /\ last = Call("init", TRUE, 0, 0)
  /\ old = Snapshot(NoReader, config)
  /\ progress = NoRows
  /\ timer = NoTimer

NextSettings ==
  \/ OpenInvalid
  \/ \E archive \in AppBooks : AppOpenBook(archive)
  \/ AppStartAutoSave
  \/ \E key \in {"down", "q"} : KeyPressed(key)
  \/ \E display \in [page_width : ConfigWidths, page_height : ConfigHeights] :
       SettingsKey(display)
  \/ ReadingLoopEnd

SpecSettings == InitSettings /\ [][NextSettings]_vars

\* A pending timer fires: its thread is about to call auto_save_callback.
\* One callback runs at a time here.
TimerFires(id) ==
  /\ id \in timer.pending
  /\ timer.callback = "none"
  /\ timer' = [timer EXCEPT !.pending = @ \ {id}, !.callback = "check"]
  /\ UNCHANGED << mode, has_reader, reader, config, chapter, wrap_in, wrap_out,
                  query, hits, last, old, progress >>

\* auto_save_callback: "if self.running and self.current_reader:
\* self.save_progress()"; otherwise the callback ends.
CallbackSave ==
  /\ timer.callback = "check"
  /\ IF mode # "exited" /\ has_reader
       THEN /\ progress' = SaveProgress(progress, has_reader, reader)
            /\ timer' = [timer EXCEPT !.callback = "stop"]
       ELSE /\ progress' = progress
            /\ timer' = [timer EXCEPT !.callback = "none"]
  /\ UNCHANGED << mode, has_reader, reader, config, chapter, wrap_in, wrap_out,
                  query, hits, last, old >>

\* The stop_auto_save of the start_auto_save the callback calls.
CallbackStop ==
  /\ timer.callback = "stop"
  /\ timer' = [StopAutoSave(timer) EXCEPT !.callback = "create"]
  /\ UNCHANGED << mode, has_reader, reader, config, chapter, wrap_in, wrap_out,
                  query, hits, last, old, progress >>

\* The rest of that start_auto_save: the next timer made and started.
CallbackCreate ==
  /\ timer.callback = "create"
  /\ FreeTimers(timer) # {}
  /\ timer' = [CreateTimer(timer) EXCEPT !.callback = "none"]
  /\ UNCHANGED << mode, has_reader, reader, config, chapter, wrap_in, wrap_out,
                  query, hits, last, old, progress >>

\* The main thread opening and leaving books while the timers fire.
NextTimer ==
  \/ \E archive \in AppBooks : AppOpenBook(archive)
  \/ AppStartAutoSave
  \/ \E key \in {"down", "q"} : KeyPressed(key)
  \/ ReadingLoopEnd
  \/ Cleanup
  \/ \E id \in 1..MaxTimers : TimerFires(id)
  \/ CallbackSave
  \/ CallbackStop
  \/ CallbackCreate

SpecTimer == Init /\ [][NextTimer]_vars

(* ------------------------------- claims -------------------------------- *)

NavOps == { "next_page", "prev_page", "goto_page", "next_chapter",
            "prev_chapter", "goto_chapter", "set_reading_position" }

InRange(n, len) == 0 <= n /\ n < len

\* C1: after load and pagination, whatever navigation and re-pagination
\* follows, every chapter's page index is within its page list when the next
\* page is read.
C1_PageIndexInRange ==
  has_reader =>
    \A k \in 1..Len(reader.chapters) :
      InRange(reader.chapters[k].current_page, Len(reader.chapters[k].pages))

\* C2: set_reading_position clamps: with a chapter out of range the position
\* is left at chapter 0, page 0; with a valid chapter and a page out of range
\* that chapter becomes current with its page at 0.
C2_SetPositionClamps ==
  last.op = "set_reading_position" =>
    IF InRange(last.a, Len(reader.chapters))
      THEN ~InRange(last.b, Len(reader.chapters[last.a + 1].pages)) =>
             /\ reader.current_chapter = last.a
             /\ reader.chapters[last.a + 1].current_page = 0
      ELSE RdGetReadingPosition(reader) = << 0, 0 >>

\* C3: a navigation call that returns False changes neither the current
\* chapter nor any chapter's page index.
C3_FailureIsNoOp ==
  (last.op \in NavOps /\ ~last.ret) => Position(reader) = Position(old.reader)

RECURSIVE Concat(_)
\* The texts of parts one after the other.
Concat(parts) == IF parts = << >> THEN << >> ELSE Head(parts) \o Concat(Tail(parts))

\* C4: every line _wrap_line returns is at most width long, and a line that
\* is one word longer than width comes back as its consecutive width-sized
\* chunks.
C4_WrappedLinesFit ==
  last.op = "_wrap_line" =>
    /\ \A k \in 1..Len(wrap_out) : Len(wrap_out[k]) <= wrap_in.width
    /\ (Len(wrap_in.line) > wrap_in.width
        /\ \A k \in 1..Len(wrap_in.line) : ~IsSpace(wrap_in.line[k]))
       => /\ Concat(wrap_out) = wrap_in.line
          /\ \A k \in 1..(Len(wrap_out) - 1) : Len(wrap_out[k]) = wrap_in.width

\* C5: search_text with the empty query returns no hit.
C5_EmptyQueryNoHits ==
  (last.op = "search_text" /\ query = << >>) => hits = << >>

\* C6: paginate leaves the chapter with at least one page, and a chapter with
\* empty content with exactly one page, the empty one.
C6_PagesNeverEmpty ==
  last.op = "paginate" =>
    /\ Len(chapter.pages) >= 1
    /\ chapter.content = << >> => chapter.pages = << << >> >>

C6_Witness ==
  /\ last.op = "paginate"
  /\ chapter.content = << >>
  /\ chapter.pages = << << >> >>

\* C7: paginating again with the width and height of the previous pagination
\* replaces the pages by an identical page list.
C7_RepaginateSame ==
  (last.op = "paginate_chapters" /\ old.config = config) =>
    PageLists(reader) = PageLists(old.reader)

C7_Witness ==
  /\ last.op = "paginate_chapters"
  /\ old.config = config
  /\ \E k \in 1..Len(reader.chapters) : Len(old.reader.chapters[k].pages) >= 2

\* C8: goto_chapter(i) with i in range returns True, makes chapter i current
\* and puts its page index at 0; otherwise it returns False and
\* get_reading_position reports what it reported before.
C8_GotoChapterContract ==
  last.op = "goto_chapter" =>
    IF InRange(last.a, Len(reader.chapters))
      THEN /\ last.ret
           /\ reader.current_chapter = last.a
           /\ reader.chapters[last.a + 1].current_page = 0
      ELSE /\ ~last.ret
           /\ RdGetReadingPosition(reader) = RdGetReadingPosition(old.reader)

C8_Witness ==
  /\ last.op = "goto_chapter"
  /\ last.ret
  /\ old.reader.current_chapter # last.a
  /\ old.reader.chapters[last.a + 1].current_page > 0

\* C9: with at least one chapter, the current chapter index stays within the
\* chapter list under next_chapter, prev_chapter, goto_chapter and
\* set_reading_position with any arguments.
C9_ChapterPointerInRange ==
  (has_reader /\ Len(reader.chapters) >= 1) =>
    InRange(reader.current_chapter, Len(reader.chapters))

C9_Witness ==
  /\ last.op = "next_chapter"
  /\ ~last.ret
  /\ Len(reader.chapters) >= 2
  /\ reader.current_chapter = Len(reader.chapters) - 1

\* C10 as stated: loading an archive that yields no chapter fails, so no
\* reader with an empty chapter list is ever handed to the caller.
C10_ZeroSectionsLoadFails ==
  ~(has_reader /\ reader.chapters = << >>)

\* C10 amended: the loader hands back a reader with an empty chapter list; it
\* is open_book that reports the failure, returning False and never entering
\* the reading loop with such a reader.
C10_OpenBookRejectsEmpty ==
  (has_reader /\ reader.chapters = << >>) =>
    /\ mode = "menu"
    /\ last.op = "open_book" => ~last.ret

C10_Witness ==
  /\ last.op = "open_book"
  /\ ~last.ret
  /\ has_reader
  /\ reader.chapters = << >>
  /\ old.reader.chapters = << >>

\* C11: a document item whose content does not decode is skipped and the
\* load goes on: every decodable item with non-blank text, before or after
\* the undecodable one, has its chapter in the reader.
C11_UndecodableSkipped ==
  last.op = "load_book" =>
    \A k \in 1..Len(reader.book.items) :
      LET item == reader.book.items[k]
      IN (item.decodable /\ Strip(item.text) # << >>) =>
           \E c \in 1..Len(reader.chapters) :
             reader.chapters[c].chapter_id = item.id

RECURSIVE PreOrder(_, _)
\* The nodes of the list items of book.toc, each with its depth below level,
\* a node before its children and the children before the next node.
PreOrder(items, level) ==
  IF items = << >> THEN << >>
  ELSE << [node |-> Head(items), level |-> level] >>
       \o PreOrder(Head(items).children, level + 1)
       \o PreOrder(Tail(items), level)

\* The nodes before the first one whose processing fails.
BeforeFailure(nodes) ==
  IF \E k \in 1..Len(nodes) : nodes[k].node.href_is_none
    THEN SubSeq(nodes, 1,
                (CHOOSE k \in 1..Len(nodes) :
                   /\ nodes[k].node.href_is_none
                   /\ \A j \in 1..(k - 1) : ~nodes[j].node.href_is_none) - 1)
    ELSE nodes

\* href without its fragment.
WithoutFragment(href) ==
  IF \E k \in 1..Len(href) : href[k] = "#"
    THEN SubSeq(href, 1,
                (CHOOSE k \in 1..Len(href) :
                   href[k] = "#" /\ \A j \in 1..(k - 1) : href[j] # "#") - 1)
    ELSE href

\* The chapters, counted from 0, the reference of node points at.
Targets(node, chapters) ==
  { i \in 0..(Len(chapters) - 1) :
      /\ node.kind \in {"link", "tuple"}
      /\ chapters[i + 1].chapter_id # << >>
      /\ LET href == WithoutFragment(node.href)
             id == chapters[i + 1].chapter_id
         IN \E k \in 0..Len(href) : SubSeq(href, k + 1, Len(href)) = id }

\* The entries of the nodes of rd.book.toc that point at a chapter of rd, in
\* pre-order, each at the depth of its node and at the first chapter matched.
ResolvedEntries(rd) ==
  LET Resolves(n) == Targets(n.node, rd.chapters) # {}
      kept == SelectSeq(BeforeFailure(PreOrder(rd.book.toc, 0)), Resolves)
  IN [k \in 1..Len(kept) |->
        [title |-> kept[k].node.title,
         chapter_index |->
           CHOOSE i \in Targets(kept[k].node, rd.chapters) :
             \A j \in Targets(kept[k].node, rd.chapters) : i <= j,
         level |-> kept[k].level]]

\* C12: when book.toc is empty or none of its nodes points at a chapter, the
\* table of contents has one entry per chapter, in chapter order, each with
\* level 0, the chapter's index and the chapter's title.
C12_FallbackToc ==
  (last.op = "load_book" /\ ResolvedEntries(reader) = << >>) =>
    /\ Len(reader.toc) = Len(reader.chapters)
    /\ \A k \in 1..Len(reader.toc) :
         /\ reader.toc[k].level = 0
         /\ reader.toc[k].chapter_index = k - 1
         /\ reader.toc[k].title = reader.chapters[k].title

C12_Witness ==
  /\ last.op = "load_book"
  /\ reader.book.toc # << >>
  /\ ResolvedEntries(reader) = << >>
  /\ Len(reader.chapters) >= 2
  /\ Len(reader.toc) = Len(reader.chapters)

\* C13: when at least one node of book.toc points at a chapter, the table of
\* contents is made of the entries of those nodes alone, with no entry made
\* from the chapters, also when a later node fails to process.
C13_NoFallbackOnceResolved ==
  (last.op = "load_book" /\ ResolvedEntries(reader) # << >>) =>
    reader.toc = ResolvedEntries(reader)

\* C20: the nodes of book.toc are processed depth-first in order: the entries
\* of the nodes that point at a chapter come in pre-order, a top-level node at
\* level 0 and a child one level below its parent; a tuple whose own
\* reference matches no chapter gives no entry and its children still do.
C20_TocPreOrder ==
  last.op = "load_book" =>
    LET resolved == ResolvedEntries(reader)
    IN resolved # << >> =>
         /\ Len(resolved) <= Len(reader.toc)
         /\ SubSeq(reader.toc, 1, Len(resolved)) = resolved

C20_Witness ==
  /\ last.op = "load_book"
  /\ Len(reader.book.toc) = 2
  /\ reader.book.toc[1].kind = "tuple"
  /\ Len(reader.chapters) = 3
  /\ reader.toc = << TocEntry(TitleA, 0, 0), TocEntry(TitleB, 1, 1),
                     TocEntry(TitleB, 2, 2), TocEntry(TitleT, 0, 0) >>

\* C14: the hits of search_text come in strictly ascending order of
\* (chapter_index, line_number), so no line of a chapter is reported twice.
C14_HitsAscending ==
  last.op = "search_text" =>
    \A k \in 1..(Len(hits) - 1) :
      \/ hits[k].chapter_index < hits[k + 1].chapter_index
      \/ /\ hits[k].chapter_index = hits[k + 1].chapter_index
         /\ hits[k].line_number < hits[k + 1].line_number

C14_Witness ==
  /\ last.op = "search_text"
  /\ \E k \in 1..(Len(hits) - 2) :
       /\ hits[k].chapter_index = hits[k + 1].chapter_index
       /\ hits[k + 1].chapter_index < hits[k + 2].chapter_index

\* The lines of chapter c (counted from 0) of rd.
LinesOf(rd, c) == SplitOn(rd.chapters[c + 1].content, NL)

\* needle occurs in line, letter case ignored.
OccursIgnoringCase(needle, line) ==
  \E at \in 0..(Len(line) - Len(needle)) :
    \A j \in 1..Len(needle) : LowerChar(line[at + j]) = LowerChar(needle[j])

\* The (chapter, line) pairs of rd whose line holds q: chapters counted from
\* 0, lines from 1.
MatchingLines(rd, q) ==
  { cl \in UNION { {c} \X (1..Len(LinesOf(rd, c))) : c \in 0..(Len(rd.chapters) - 1) } :
      OccursIgnoringCase(q, LinesOf(rd, cl[1])[cl[2]]) }

\* C15: for a non-empty query search_text returns one hit for each line of
\* each chapter that holds the query, letter case ignored, and no other hit;
\* a hit carries the chapter's index, the line's number counted from 1 and
\* the line trimmed.
C15_HitsAreTheMatchingLines ==
  (last.op = "search_text" /\ query # << >>) =>
    /\ { << hits[k].chapter_index, hits[k].line_number >> : k \in 1..Len(hits) }
         = MatchingLines(reader, query)
    /\ Len(hits) = Cardinality(MatchingLines(reader, query))
    /\ \A k \in 1..Len(hits) :
         hits[k].line_content
           = Strip(LinesOf(reader, hits[k].chapter_index)[hits[k].line_number])

C15_Witness ==
  /\ last.op = "search_text"
  /\ query = << "B" >>
  /\ Len(hits) >= 3
  /\ \E k \in 1..Len(hits) :
       hits[k].line_content # LinesOf(reader, hits[k].chapter_index)[hits[k].line_number]
  /\ \E c \in 0..(Len(reader.chapters) - 1) :
       Cardinality({ cl \in MatchingLines(reader, query) : cl[1] = c })
         < Len(LinesOf(reader, c))

\* C16: the context of a hit on line i of a chapter of n lines is made of the
\* lines max(1, i - 2) .. min(n, i + 2) of that chapter, in order, each
\* trimmed, joined by newlines.
C16_ContextWindow ==
  last.op = "search_text" =>
    \A k \in 1..Len(hits) :
      LET lines == LinesOf(reader, hits[k].chapter_index)
          i == hits[k].line_number
          n == Len(lines)
          first == IF i - 2 >= 1 THEN i - 2 ELSE 1
          final == IF i + 2 <= n THEN i + 2 ELSE n
      IN /\ hits[k].context
              = Join([j \in 1..(final - first + 1) |-> Strip(lines[first + j - 1])], NL)
         /\ Len(SplitOn(hits[k].context, NL)) = final - first + 1

C16_Witness ==
  /\ last.op = "search_text"
  /\ Len(reader.chapters) = 2
  /\ \E k \in 1..Len(hits) :
       /\ hits[k].chapter_index = 0
       /\ hits[k].line_number = 3
       /\ Len(LinesOf(reader, 0)) = 6
       /\ hits[k].context
            = << "a", NL, "b", NL, "a", "b", NL, "B", NL, "a", "b" >>
  /\ \E k \in 1..Len(hits) : hits[k].line_number = 1 /\ hits[k].chapter_index = 0
  /\ \E k \in 1..Len(hits) : hits[k].line_number = 5 /\ hits[k].chapter_index = 0

\* C17: next_page returns True and raises the chapter's page index by one
\* when the index was below len(pages) - 1, and returns False otherwise;
\* prev_page returns True and lowers it by one when the index was above 0,
\* and returns False otherwise; so prev_page after a next_page that returned
\* True puts the index back.
C17_PageSteps ==
  last.op \in {"next_page", "prev_page"} =>
    LET before == old.reader.chapters[last.a + 1]
        after == reader.chapters[last.a + 1]
    IN /\ last.op = "next_page" =>
            /\ last.ret <=> before.current_page < Len(before.pages) - 1
            /\ last.ret => after.current_page = before.current_page + 1
            /\ last.ret =>
                 /\ ChPrevPage(after).ret
                 /\ ChPrevPage(after).ch.current_page = before.current_page
       /\ last.op = "prev_page" =>
            /\ last.ret <=> before.current_page > 0
            /\ last.ret => after.current_page = before.current_page - 1

C17_Witness ==
  /\ last.op = "next_page"
  /\ last.ret
  /\ old.reader.chapters[last.a + 1].current_page >= 1
  /\ reader.chapters[last.a + 1].current_page
       = Len(reader.chapters[last.a + 1].pages) - 1

\* The page index of the current chapter of rd.
CurrentPage(rd) == rd.chapters[rd.current_chapter + 1].current_page

\* The number of pages of the current chapter of rd.
CurrentPageCount(rd) == Len(rd.chapters[rd.current_chapter + 1].pages)

\* C18: the next-page key on the last page of chapter i, not the last
\* chapter, leaves the reader on page 0 of chapter i + 1, and the
\* previous-page key on page 0 of chapter i > 0 leaves it on the last page of
\* chapter i - 1, whatever pages of those chapters were shown before.
C18_PageKeysCrossChapters ==
  /\ (/\ last.op = "key_down" /\ last.ret
      /\ CurrentPage(old.reader) = CurrentPageCount(old.reader) - 1
      /\ old.reader.current_chapter < Len(old.reader.chapters) - 1)
     => /\ reader.current_chapter = old.reader.current_chapter + 1
        /\ CurrentPage(reader) = 0
  /\ (/\ last.op = "key_up" /\ last.ret
      /\ CurrentPage(old.reader) = 0
      /\ old.reader.current_chapter > 0)
     => /\ reader.current_chapter = old.reader.current_chapter - 1
        /\ CurrentPage(reader) = CurrentPageCount(reader) - 1

\* The lines of page k of ch.
PageLines(ch, k) == SplitOn(ch.pages[k], NL)

\* C19: for width >= 1 and height >= 3 the pages paginate makes hold the
\* wrapped lines of the content, each once and in order; every page but the
\* last holds height - 2 lines and the last holds 1 to height - 2 lines.
C19_PagesPartitionLines ==
  last.op = "paginate" =>
    LET page_width == last.a
        page_height == last.b
        n == Len(chapter.pages)
    IN /\ Concat([k \in 1..n |-> PageLines(chapter, k)])
            = WrapAll(SplitOn(chapter.content, NL), page_width)
       /\ \A k \in 1..(n - 1) : Len(PageLines(chapter, k)) = page_height - 2
       /\ n >= 1
       /\ Len(PageLines(chapter, n)) \in 1..(page_height - 2)

C19_Witness ==
  /\ last.op = "paginate"
  /\ last.b = 4
  /\ Len(chapter.pages) = 2
  /\ Len(PageLines(chapter, 1)) = 2
  /\ Len(PageLines(chapter, 2)) = 1

\* The chapters, counted from 0, whose identifier, empty or not, is a suffix
\* of the reference of node without its fragment.
SuffixTargets(node, chapters) ==
  { i \in 0..(Len(chapters) - 1) :
      /\ node.kind \in {"link", "tuple"}
      /\ LET href == WithoutFragment(node.href)
             id == chapters[i + 1].chapter_id
         IN \E k \in 0..Len(href) : SubSeq(href, k + 1, Len(href)) = id }

\* The least chapter of a non-empty set of them.
Lowest(targets) == CHOOSE i \in targets : \A j \in targets : i <= j

\* The nodes of rd.book.toc processed before the first failure, in pre-order.
Processed(rd) == BeforeFailure(PreOrder(rd.book.toc, 0))

\* Whether the processing of rd.book.toc ran into a failure.
TocFailed(rd) == Len(Processed(rd)) < Len(PreOrder(rd.book.toc, 0))

\* C21 as stated: the entries of the nodes of book.toc are, in order, at the
\* lowest chapter whose identifier is a suffix of the node's reference without
\* its fragment, a valid index; a node of which no identifier is a suffix
\* gives no entry.
C21_FirstSuffixMatch ==
  last.op = "load_book" =>
    LET Matches(n) == SuffixTargets(n.node, reader.chapters) # {}
        kept == SelectSeq(Processed(reader), Matches)
    IN kept # << >> =>
         /\ Len(kept) <= Len(reader.toc)
         /\ ~TocFailed(reader) => Len(reader.toc) = Len(kept)
         /\ \A k \in 1..Len(kept) :
              /\ InRange(reader.toc[k].chapter_index, Len(reader.chapters))
              /\ reader.toc[k].chapter_index =
                   Lowest(SuffixTargets(kept[k].node, reader.chapters))

\* C21 amended: the same with the chapters that have a non-empty identifier;
\* a chapter whose identifier is empty is the target of no entry.
C21_FirstNonEmptySuffixMatch ==
  last.op = "load_book" =>
    LET Matches(n) == Targets(n.node, reader.chapters) # {}
        kept == SelectSeq(Processed(reader), Matches)
    IN kept # << >> =>
         /\ Len(kept) <= Len(reader.toc)
         /\ ~TocFailed(reader) => Len(reader.toc) = Len(kept)
         /\ \A k \in 1..Len(kept) :
              /\ InRange(reader.toc[k].chapter_index, Len(reader.chapters))
              /\ reader.chapters[reader.toc[k].chapter_index + 1].chapter_id
                   # << >>
              /\ reader.toc[k].chapter_index =
                   Lowest(Targets(kept[k].node, reader.chapters))

\* A reference that ends with the identifiers of two chapters resolved to the
\* first, with another reference of the same table matching no chapter.
C21_Witness ==
  /\ last.op = "load_book"
  /\ ~TocFailed(reader)
  /\ Len(reader.book.toc) = 2
  /\ Len(reader.toc) = 1
  /\ Cardinality(Targets(reader.book.toc[1], reader.chapters)) = 2
  /\ reader.toc[1].chapter_index = 0

\* The place of the item id in the spine of rd.book.
SpinePlace(rd, id) == CHOOSE k \in 1..Len(rd.book.spine) : rd.book.spine[k] = id

\* C22: the chapters of a loaded book are in the order of the spine: of two
\* chapters made from items the spine lists, the one listed first comes first.
C22_ChaptersInSpineOrder ==
  last.op = "load_book" =>
    \A i, j \in 1..Len(reader.chapters) :
      LET id_i == reader.chapters[i].chapter_id
          id_j == reader.chapters[j].chapter_id
          listed == { reader.book.spine[k] : k \in 1..Len(reader.book.spine) }
      IN (i < j /\ id_i \in listed /\ id_j \in listed) =>
           SpinePlace(reader, id_i) < SpinePlace(reader, id_j)

\* The number of lines on the pages of ch.
TotalLines(ch) == Len(Concat([k \in 1..Len(ch.pages) |-> PageLines(ch, k)]))

\* C24: for width >= 1 and height >= 3 paginate ends, after a number of steps
\* bounded by the length of the content.  Every step of the word-slicing loop
\* and of the other branches that emit a line adds one line, and the
\* page-filling loop takes one step for each line: the lines on the pages are
\* at most one more than the characters of the content, and the pages are at
\* most as many as the lines.
C24_PaginateBounded ==
  last.op = "paginate" =>
    /\ Len(chapter.pages) >= 1
    /\ TotalLines(chapter) <= Len(chapter.content) + 1
    /\ Len(chapter.pages) <= TotalLines(chapter)

\* A word of four characters sliced at width 1, one line to a page.
C24_Witness ==
  /\ last.op = "paginate"
  /\ last.a = 1
  /\ last.b = 3
  /\ chapter.content = << "a", "a", "a", "a" >>
  /\ Len(chapter.pages) = 4

\* C23: every call of paginate_chapters the application makes, in open_book
\* and after the settings dialog of the 's' key, has a page width of at least
\* 1 and a page height of at least 3, whatever the configuration holds.
C23_PaginateDimensionsGuarded ==
  /\ (last.op = "open_book" /\ (last.ret \/ mode = "hung")) =>
       (last.a >= 1 /\ last.b >= 3)
  /\ (last.op = "s" /\ (last.ret \/ mode = "hung")) =>
       (config.page_width >= 1 /\ config.page_height >= 3)

\* C25: after open_book succeeds the position of the reader is in range and
\* is the persisted one clamped: the persisted (chapter, page) when both are
\* valid under the pagination made, (chapter, 0) when the page alone is not,
\* (0, 0) when the chapter is not.  A book without a row gets one with (0, 0),
\* and starts at (0, 0).
C25_RestoredPositionClamped ==
  (last.op = "open_book" /\ last.ret) =>
    LET saved == progress[reader.book]
        chapters == Len(reader.chapters)
        position == << reader.current_chapter, CurrentPage(reader) >>
    IN /\ InRange(reader.current_chapter, chapters)
       /\ InRange(CurrentPage(reader), CurrentPageCount(reader))
       /\ IF ~InRange(saved[1], chapters) THEN position = << 0, 0 >>
          ELSE IF InRange(saved[2], Len(reader.chapters[saved[1] + 1].pages))
            THEN position = saved
            ELSE position = << saved[1], 0 >>

\* A book opened whose row holds the second chapter and a page before the
\* first: the reader is at the first page of the second chapter.
C25_Witness ==
  /\ last.op = "open_book"
  /\ last.ret
  /\ mode = "reading"
  /\ progress[reader.book] = << 1, -1 >>
  /\ reader.current_chapter = 1
  /\ CurrentPage(reader) = 0

\* C30: an open_book that fails changes no persisted progress, and neither
\* does the cleanup that follows it.
C30_FailedOpenKeepsProgress ==
  [][/\ (last'.op = "open_book" /\ ~last'.ret) => progress' = progress
     /\ (last.op = "open_book" /\ ~last.ret /\ last'.op = "cleanup") =>
          progress' = progress]_vars

\* The keys handle_key_input is given.
AppKeys == { "down", "up", "right", "left", "l", "o", "q", "t", "g", "/", "s" }

\* The (chapter, page) rd is at.
ReadingPosition(rd) ==
  IF InRange(rd.current_chapter, Len(rd.chapters))
    THEN << rd.current_chapter, CurrentPage(rd) >>
    ELSE << 0, 0 >>

\* C26: when the handling of a key has changed the reading position, by a
\* page or chapter key or by a choice in the table of contents, the go-to
\* dialog or the search results, the progress stored for the book when
\* handle_key_input returns is the new position.
C26_PositionPersisted ==
  (last.op \in AppKeys
     /\ ReadingPosition(reader) # ReadingPosition(old.reader)) =>
    /\ reader.book \in DOMAIN progress
    /\ progress[reader.book] = ReadingPosition(reader)

\* C27: a next-chapter key, 'right' or 'l', pressed before the last chapter
\* moves the reader to the next chapter and the reading loop goes on:
\* handle_key_input returns True.
C27_NextChapterKeyStays ==
  (last.op \in {"right", "l"}
     /\ old.reader.current_chapter < Len(old.reader.chapters) - 1) =>
    /\ reader.current_chapter = old.reader.current_chapter + 1
    /\ last.ret
    /\ mode = "reading"

\* C28: the choice of entry k of the table of contents moves the reader to
\* page 0 of the chapter the entry has as its chapter_index.
C28_TocSelectionGoesToTarget ==
  (last.op = "t" /\ InRange(last.a, Len(old.reader.toc))) =>
    /\ reader.current_chapter = old.reader.toc[last.a + 1].chapter_index
    /\ CurrentPage(reader) = 0

\* C29: however the callback of a timer interleaves with the main thread, at
\* most one auto-save timer is pending, and none is pending in the main menu,
\* after the stop_auto_save that ends the reading loop, or after the exit.
C29_OneTimerPending ==
  /\ Cardinality(timer.pending) <= 1
  /\ mode \in {"menu", "exited"} => timer.pending = {}

====
